---- MODULE Spec2Model ----
(***************************************************************************)
(* Model of backend/main.py of DrawingExam: the math engine                *)
(* calculate_geometry, which turns an intent command into drawing          *)
(* elements, and the /generate handler generate_geometry, which cleans the *)
(* language model's reply, parses it and packages the engine's result.     *)
(*                                                                         *)
(* Python values are tagged records.  A string is a sequence of tokens     *)
(* (each token a character or an indivisible word), so that f-string       *)
(* concatenation, in, split and strip work on the text and not on an       *)
(* abstraction of it.  A dict is the sequence of its key/value pairs in    *)
(* insertion order.  A number is an integer count of 10^-(Digits+1), one   *)
(* decimal digit finer than the precision round(.., 6) emits.  The Korean  *)
(* message texts of the source are written in English.                     *)
(***************************************************************************)
EXTENDS Integers, Sequences, FiniteSets, TLC

VARIABLES api_key, request, pc, command, result, printed, raised, response

vars == <<api_key, request, pc, command, result, printed, raised, response>>

\* ------------------------------------------------------------------------
\* Bounds of the model
\* ------------------------------------------------------------------------
MaxVertices == 2
MaxNames == 3

\* ------------------------------------------------------------------------
\* Python values
\* ------------------------------------------------------------------------
PyNone == [k |-> "none"]
PyNum(n) == [k |-> "num", n |-> n]
PyStr(s) == [k |-> "str", s |-> s]
PyList(l) == [k |-> "list", l |-> l]
PyDict(d) == [k |-> "dict", d |-> d]
\* a Python int too large for a double, as json.loads builds from a literal of
\* several hundred digits; HugeLiteral stands for its digits
PyHuge == [k |-> "huge"]
HugeLiteral == "1[000 ... 400 zeros]"
Word(w) == PyStr(<<w>>)
KV(key, val) == [key |-> key, val |-> val]

Ok(v) == [ok |-> TRUE, v |-> v]
Raise(e) == [ok |-> FALSE, e |-> e]

\* round(px, 6)
Digits == 6
One == 10 ^ (Digits + 1)
Num(i) == PyNum(i * One)

\* the first exception of a sequence of evaluation results, in evaluation order
RECURSIVE FirstError(_)
FirstError(rs) ==
  IF rs = <<>> THEN "none"
  ELSE IF ~ Head(rs).ok THEN Head(rs).e
  ELSE FirstError(Tail(rs))

\* dict.get(key, default)
RECURSIVE Lookup(_, _, _)
Lookup(d, key, default) ==
  IF d = <<>> THEN default
  ELSE IF Head(d).key = key THEN Head(d).val
  ELSE Lookup(Tail(d), key, default)

Get(dict, key, default) == Lookup(dict.d, key, default)

\* number literals that float(str) and the JSON decoder understand
NumberLiteral ==
  [t \in {"0", "1", "2", "4", "0.1234567", "-1.5"} |->
     CASE t = "0" -> 0
       [] t = "1" -> One
       [] t = "2" -> 2 * One
       [] t = "4" -> 4 * One
       [] t = "0.1234567" -> 1234567
       [] t = "-1.5" -> 0 - (3 * One) \div 2]

\* float(v)
Float(v) ==
  CASE v.k = "num" -> Ok(v.n)
    [] v.k = "huge" -> Raise("OverflowError")
    [] v.k = "str" ->
         IF Len(v.s) = 1 /\ v.s[1] \in DOMAIN NumberLiteral
         THEN Ok(NumberLiteral[v.s[1]])
         ELSE Raise("ValueError")
    [] OTHER -> Raise("TypeError")

\* v[i] with i a 0-based index
Index(v, i) ==
  CASE v.k = "list" -> IF i < Len(v.l) THEN Ok(v.l[i + 1]) ELSE Raise("IndexError")
    [] v.k = "str" -> IF i < Len(v.s) THEN Ok(Word(v.s[i + 1])) ELSE Raise("IndexError")
    [] v.k = "dict" -> Raise("KeyError")
    [] OTHER -> Raise("TypeError")

\* float(v[i])
FloatAt(v, i) ==
  LET r == Index(v, i) IN IF r.ok THEN Float(r.v) ELSE r

\* a + b (sign 1) or a - b (sign -1); an int beyond double range does not mix
\* with a fractional number
Arith(a, b, sign) ==
  IF a.k = "num" /\ b.k = "num" THEN Ok(PyNum(a.n + sign * b.n))
  ELSE IF {a.k, b.k} = {"huge"} THEN Ok(PyHuge)
  ELSE IF {a.k, b.k} = {"num", "huge"}
  THEN LET n == IF a.k = "num" THEN a.n ELSE b.n IN
       IF n % One = 0 THEN Ok(PyHuge) ELSE Raise("OverflowError")
  ELSE Raise("TypeError")

\* bool(v)
Truthy(v) ==
  CASE v.k = "none" -> FALSE
    [] v.k = "num" -> v.n # 0
    [] v.k = "huge" -> TRUE
    [] v.k = "str" -> v.s # <<>>
    [] v.k = "list" -> v.l # <<>>
    [] v.k = "dict" -> v.d # <<>>

\* len(v)
PyLen(v) ==
  CASE v.k = "str" -> Ok(Len(v.s))
    [] v.k = "list" -> Ok(Len(v.l))
    [] v.k = "dict" -> Ok(Len(v.d))
    [] OTHER -> Raise("TypeError")

\* the items a for loop over v visits
Iterate(v) ==
  CASE v.k = "list" -> Ok(v.l)
    [] v.k = "str" -> Ok([i \in 1..Len(v.s) |-> Word(v.s[i])])
    [] v.k = "dict" -> Ok([i \in 1..Len(v.d) |-> Word(v.d[i].key)])
    [] OTHER -> Raise("TypeError")

\* floor(x * a / b) for x of any sign and small a, b > 0, without a large product
MulDiv(x, a, b) == (x \div b) * a + ((x % b) * a) \div b

\* round(x, ndigits): to the nearest multiple of 10^-ndigits, ties to even
Round(x, ndigits) ==
  LET step == One \div (10 ^ ndigits)
      q == x \div step
      r == x % step
  IN  IF 2 * r < step THEN q * step
      ELSE IF 2 * r > step THEN (q + 1) * step
      ELSE IF q % 2 = 0 THEN q * step
      ELSE (q + 1) * step

RECURSIVE DigitString(_, _)
DigitString(n, width) ==
  IF width = 0 THEN "" ELSE DigitString(n \div 10, width - 1) \o ToString(n % 10)

\* f'{x:.<ndigits>f}'
Fixed(x, ndigits) ==
  LET step == One \div (10 ^ ndigits)
      r == Round(x, ndigits) \div step
      a == IF r < 0 THEN 0 - r ELSE r
      scale == 10 ^ ndigits
  IN  (IF r < 0 THEN "-" ELSE "") \o ToString(a \div scale) \o "."
        \o DigitString(a % scale, ndigits)

\* str(n): an integral number prints as an int, any other with its fraction
NumStr(n) ==
  LET a == IF n < 0 THEN 0 - n ELSE n IN
  (IF n < 0 THEN "-" ELSE "") \o ToString(a \div One)
    \o (IF a % One = 0 THEN "" ELSE "." \o DigitString(a % One, Digits + 1))

\* str(v), as f'{v}' formats it
RECURSIVE Str(_)
RECURSIVE StrItems(_)
StrItems(l) ==
  IF l = <<>> THEN <<>>
  ELSE (IF Head(l).k = "str" THEN <<"'">> \o Head(l).s \o <<"'">> ELSE Str(Head(l)))
         \o (IF Tail(l) = <<>> THEN <<>> ELSE <<", ">> \o StrItems(Tail(l)))
Str(v) ==
  CASE v.k = "str" -> v.s
    [] v.k = "none" -> <<"None">>
    [] v.k = "num" -> <<NumStr(v.n)>>
    [] v.k = "huge" -> <<HugeLiteral>>
    [] v.k = "list" -> <<"[">> \o StrItems(v.l) \o <<"]">>
    [] v.k = "dict" ->
         <<"{">> \o StrItems([i \in 1..Len(v.d) |-> Word(v.d[i].key)]) \o <<"}">>

\* chr(code)
Alphabet == <<"A", "B", "C", "D", "E", "F", "G", "H", "I", "J", "K", "L", "M",
              "N", "O", "P", "Q", "R", "S", "T", "U", "V", "W", "X", "Y", "Z">>
Chr(code) ==
  IF code - 64 \in 1..Len(Alphabet) THEN Alphabet[code - 64]
  ELSE "chr" \o ToString(code)

\* ------------------------------------------------------------------------
\* Elements and results
\* ------------------------------------------------------------------------
Element(id, type, parents, props) ==
  [id |-> id, type |-> type, parents |-> parents, props |-> props]

\* f'p{name}'
PointId(name) == <<"p">> \o Str(name)

\* a point element whose coordinates are emitted as given
Point(name, x, y) ==
  Element(PointId(name), "point", <<PyNum(x), PyNum(y)>>, <<KV("name", name)>>)

\* the outcome of the try block: the elements appended so far, the
\* explanation, and the exception that ended it ("none" if none did)
Done(elements, explanation) ==
  [elements |-> elements, explanation |-> explanation, error |-> "none"]
Fault(elements, explanation, e) ==
  [elements |-> elements, explanation |-> explanation, error |-> e]

\* mutant of RoundedPoint: the round(.., 6) calls left out
RoundedPointRaw(name, x, y) == Point(name, x, y)

\* a point element whose coordinates are rounded before emission
RoundedPoint(name, x, y) == Point(name, Round(x, Digits), Round(y, Digits))

\* for i, (px, py) in enumerate(points): append the rounded point names[i]
RoundedPoints(points, names) ==
  [i \in 1..Len(points) |-> RoundedPoint(names[i], points[i][1], points[i][2])]

\* [f'p{name}' for name in names]
PointIds(names) == [i \in 1..Len(names) |-> PyStr(PointId(names[i]))]

ABC == <<Word("A"), Word("B"), Word("C")>>
ABCD == <<Word("A"), Word("B"), Word("C"), Word("D")>>

\* math.sqrt(3) as the ratio Sqrt3Num / Sqrt3Den
Sqrt3Num == 1351
Sqrt3Den == 780

\* ------------------------------------------------------------------------
\* The intent handlers of calculate_geometry
\* ------------------------------------------------------------------------
create_point(data, explanation) ==
  LET x == Get(data, "x", Num(0))
      y == Get(data, "y", Num(0))
      name == Get(data, "name", Word("P"))
      fx == Float(x)
      fy == Float(y)
      e == FirstError(<<fx, fy>>)
  IN  IF e # "none" THEN Fault(<<>>, explanation, e)
      ELSE Done(<<Point(name, fx.v, fy.v)>>, explanation)

\* the three vertices of the triangle, or the exception float(height) raises
TrianglePoints(data, triangle_type, base, ax, ay) ==
  CASE triangle_type = Word("equilateral") ->
         LET height == MulDiv(base, Sqrt3Num, 2 * Sqrt3Den) IN
         Ok(<<<<ax, ay>>, <<ax + base, ay>>, <<ax + base \div 2, ay + height>>>>)
    [] triangle_type = Word("isosceles") ->
         LET h == Float(Get(data, "height", PyNum(MulDiv(base, 8, 10)))) IN
         IF ~ h.ok THEN h
         ELSE Ok(<<<<ax, ay>>, <<ax + base, ay>>, <<ax + base \div 2, ay + h.v>>>>)
    [] triangle_type = Word("right") ->
         LET h == Float(Get(data, "height", PyNum(MulDiv(base, 75, 100)))) IN
         IF ~ h.ok THEN h
         ELSE Ok(<<<<ax, ay>>, <<ax + base, ay>>, <<ax, ay + h.v>>>>)
    [] OTHER ->
         Ok(<<<<ax, ay>>, <<ax + base, ay>>,
              <<ax + MulDiv(base, 3, 10), ay + MulDiv(base, 7, 10)>>>>)

\* for i in range(3): the segment from names[i] to names[(i + 1) % 3]
Segments(names) ==
  [i \in 1..3 |->
     LET j == (i % 3) + 1 IN
     Element(<<"s">> \o Str(names[i]) \o Str(names[j]), "segment",
             <<PyStr(PointId(names[i])), PyStr(PointId(names[j]))>>, <<>>)]

create_triangle(data, explanation) ==
  LET triangle_type == Get(data, "type", Word("general"))
      fb == Float(Get(data, "base_length", Num(5)))
      anchor == Get(data, "anchor", PyList(<<Num(0), Num(0)>>))
      fax == FloatAt(anchor, 0)
      fay == FloatAt(anchor, 1)
      e == FirstError(<<fb, fax, fay>>)
      points == TrianglePoints(data, triangle_type, fb.v, fax.v, fay.v)
  IN  IF e # "none" THEN Fault(<<>>, explanation, e)
      ELSE IF ~ points.ok THEN Fault(<<>>, explanation, points.e)
      ELSE Done(RoundedPoints(points.v, ABC) \o Segments(ABC), explanation)

create_circle(data, explanation) ==
  LET center == Get(data, "center", PyList(<<Num(0), Num(0)>>))
      radius == Float(Get(data, "radius", Num(3)))
      name == Get(data, "name", Word("O"))
      cx == FloatAt(center, 0)
      cy == FloatAt(center, 1)
      e == FirstError(<<radius, cx, cy>>)
  IN  IF e # "none" THEN Fault(<<>>, explanation, e)
      ELSE Done(<<Point(name, cx.v, cy.v),
                  Element(<<"circle_">> \o Str(name), "circle",
                          <<PyStr(PointId(name)), PyNum(radius.v)>>, <<>>)>>,
                explanation)

\* mutant of Corners: the last two corners in the opposite order
CornersCrossed(ax, ay, width, height) ==
  <<<<ax, ay>>, <<ax + width, ay>>, <<ax, ay + height>>, <<ax + width, ay + height>>>>

\* the corners of the axis-parallel box at (ax, ay), in emission order
Corners(ax, ay, width, height) ==
  <<<<ax, ay>>, <<ax + width, ay>>, <<ax + width, ay + height>>, <<ax, ay + height>>>>

\* the four rounded corner points followed by the polygon over them
Box(id, corners) ==
  RoundedPoints(corners, ABCD) \o <<Element(<<id>>, "polygon", PointIds(ABCD), <<>>)>>

create_rectangle(data, explanation) ==
  LET anchor == Get(data, "anchor", PyList(<<Num(0), Num(0)>>))
      width == Float(Get(data, "width", Num(4)))
      height == Float(Get(data, "height", Num(3)))
      fax == FloatAt(anchor, 0)
      fay == FloatAt(anchor, 1)
      e == FirstError(<<width, height, fax, fay>>)
  IN  IF e # "none" THEN Fault(<<>>, explanation, e)
      ELSE Done(Box("rect1", Corners(fax.v, fay.v, width.v, height.v)), explanation)

create_square(data, explanation) ==
  LET anchor == Get(data, "anchor", PyList(<<Num(0), Num(0)>>))
      side == Float(Get(data, "side", Num(4)))
      fax == FloatAt(anchor, 0)
      fay == FloatAt(anchor, 1)
      e == FirstError(<<side, fax, fay>>)
  IN  IF e # "none" THEN Fault(<<>>, explanation, e)
      ELSE Done(Box("square1", Corners(fax.v, fay.v, side.v, side.v)), explanation)

\* for i, vertex in enumerate(vertices): append the point names[i]; the
\* points appended before an exception stay in the result
RECURSIVE PolygonPoints(_, _, _, _)
PolygonPoints(vertices, names, i, acc) ==
  IF i = Len(vertices) THEN [elements |-> acc, error |-> "none"]
  ELSE LET name == Index(names, i)
           fx == FloatAt(vertices[i + 1], 0)
           fy == FloatAt(vertices[i + 1], 1)
           e == FirstError(<<name, fx, fy>>)
       IN  IF e # "none" THEN [elements |-> acc, error |-> e]
           ELSE PolygonPoints(vertices, names, i + 1,
                              Append(acc, Point(name.v, fx.v, fy.v)))

\* names = [chr(65 + i) for i in range(len(vertices))]
AutoNames(n) == PyList([i \in 1..n |-> Word(Chr(65 + i - 1))])

create_polygon(data, explanation) ==
  LET vertices == Get(data, "vertices", PyList(<<>>))
      given == Get(data, "names", PyList(<<>>))
      n == PyLen(vertices)
      names == IF Truthy(given) THEN given ELSE AutoNames(n.v)
      items == Iterate(vertices)
      loop == PolygonPoints(items.v, names, 0, <<>>)
      ids == Iterate(names)
  IN  IF ~ Truthy(given) /\ ~ n.ok THEN Fault(<<>>, explanation, n.e)
      ELSE IF ~ items.ok THEN Fault(<<>>, explanation, items.e)
      ELSE IF loop.error # "none" THEN Fault(loop.elements, explanation, loop.error)
      ELSE IF ~ ids.ok THEN Fault(loop.elements, explanation, ids.e)
      ELSE Done(Append(loop.elements,
                       Element(<<"p", "olygon1">>, "polygon", PointIds(ids.v), <<>>)),
                explanation)

create_line(data, explanation) ==
  LET p1 == Get(data, "point1", PyList(<<Num(0), Num(0)>>))
      p2 == Get(data, "point2", PyList(<<Num(1), Num(1)>>))
      x1 == FloatAt(p1, 0)
      y1 == FloatAt(p1, 1)
      x2 == FloatAt(p2, 0)
      y2 == FloatAt(p2, 1)
      e1 == FirstError(<<x1, y1>>)
      e2 == FirstError(<<x2, y2>>)
      P1 == Point(Word("P1"), x1.v, y1.v)
      P2 == Point(Word("P2"), x2.v, y2.v)
  IN  IF e1 # "none" THEN Fault(<<>>, explanation, e1)
      ELSE IF e2 # "none" THEN Fault(<<P1>>, explanation, e2)
      ELSE Done(<<P1, P2,
                  Element(<<"line1">>, "line",
                          <<PyStr(PointId(Word("P1"))), PyStr(PointId(Word("P2")))>>,
                          <<>>)>>,
                explanation)

\* the integer square root of n >= 0, by bisection on lo..hi
RECURSIVE Bisect(_, _, _)
Bisect(n, lo, hi) ==
  IF lo >= hi THEN lo
  ELSE LET mid == (lo + hi + 1) \div 2 IN
       IF mid * mid <= n THEN Bisect(n, mid, hi) ELSE Bisect(n, lo, mid - 1)

\* math.sqrt(dx**2 + dy**2), computed on the differences taken to 4 places,
\* the precision the explanation prints; the last place may differ by one
\* from the double result
Distance(dx, dy) ==
  LET per == One \div (10 ^ 4)
      a == Round(dx, 4) \div per
      b == Round(dy, 4) \div per
  IN  Bisect(a * a + b * b, 0, 46340) * per

\* v[i] - w[i]: both subscripts, then the subtraction
Difference(v, w, i) ==
  LET a == Index(v, i)
      b == Index(w, i)
      e == FirstError(<<a, b>>)
  IN  IF e # "none" THEN Raise(e) ELSE Arith(a.v, b.v, -1)

\* (v[i] + w[i]) / 2: both subscripts, the sum, then the division
Mean(v, w, i) ==
  LET a == Index(v, i)
      b == Index(w, i)
      e == FirstError(<<a, b>>)
      sum == Arith(a.v, b.v, 1)
  IN  IF e # "none" THEN Raise(e)
      ELSE IF ~ sum.ok THEN sum
      ELSE IF sum.v.k = "huge" THEN Raise("OverflowError")
      ELSE Ok(sum.v.n \div 2)

calculate_distance(data, explanation) ==
  LET p1 == Get(data, "point1", PyList(<<Num(0), Num(0)>>))
      p2 == Get(data, "point2", PyList(<<Num(1), Num(1)>>))
      dx == Difference(p2, p1, 0)
      dy == Difference(p2, p1, 1)
      e == FirstError(<<dx, dy>>)
      distance == Distance(dx.v.n, dy.v.n)
  IN  IF e # "none" THEN Fault(<<>>, explanation, e)
      ELSE IF "huge" \in {dx.v.k, dy.v.k} THEN Fault(<<>>, explanation, "OverflowError")
      ELSE Done(<<>>, PyStr(<<"The distance between the two points is ",
                              Fixed(distance, 4), ".">>))

calculate_midpoint(data, explanation) ==
  LET p1 == Get(data, "point1", PyList(<<Num(0), Num(0)>>))
      p2 == Get(data, "point2", PyList(<<Num(1), Num(1)>>))
      mx == Mean(p1, p2, 0)
      my == Mean(p1, p2, 1)
      e == FirstError(<<mx, my>>)
  IN  IF e # "none" THEN Fault(<<>>, explanation, e)
      ELSE Done(<<Element(PointId(Word("M")), "point",
                          <<PyNum(Round(mx.v, Digits)), PyNum(Round(my.v, Digits))>>,
                          <<KV("name", Word("M")), KV("color", Word("red"))>>)>>,
                PyStr(<<"Midpoint M(", Fixed(mx.v, 2), ", ", Fixed(my.v, 2),
                        ") is marked.">>))

\* mutant of unknown_intent: the explanation is the intent alone
unknown_intent_bare(intent) == Done(<<>>, PyStr(Str(intent)))

\* the final else: an intent outside the vocabulary
unknown_intent(intent) ==
  Done(<<>>, PyStr(<<"Cannot handle the command: ">> \o Str(intent)))

\* ------------------------------------------------------------------------
\* calculate_geometry
\* ------------------------------------------------------------------------
Vocabulary ==
  {Word("create_point"), Word("create_triangle"), Word("create_circle"),
   Word("create_rectangle"), Word("create_square"), Word("create_polygon"),
   Word("create_line"), Word("calculate_distance"), Word("calculate_midpoint")}

\* the if / elif chain inside the try block; every recognised branch starts
\* with data.get, which only a dict has
Handler(intent, data, explanation) ==
  IF intent \notin Vocabulary THEN unknown_intent(intent)
  ELSE IF data.k # "dict" THEN Fault(<<>>, explanation, "AttributeError")
  ELSE CASE intent = Word("create_point") -> create_point(data, explanation)
         [] intent = Word("create_triangle") -> create_triangle(data, explanation)
         [] intent = Word("create_circle") -> create_circle(data, explanation)
         [] intent = Word("create_rectangle") -> create_rectangle(data, explanation)
         [] intent = Word("create_square") -> create_square(data, explanation)
         [] intent = Word("create_polygon") -> create_polygon(data, explanation)
         [] intent = Word("create_line") -> create_line(data, explanation)
         [] intent = Word("calculate_distance") -> calculate_distance(data, explanation)
         [] intent = Word("calculate_midpoint") -> calculate_midpoint(data, explanation)

\* f'[calculation error]: {str(e)}'
FaultReport(e) == PyStr(<<"Calculation error: ", e>>)

\* what a call hands back: the returned dict, the error line it printed
\* ("none" if it printed none) and the exception it let through ("none" if none)
Returned(elements, explanation, error) ==
  [raised |-> "none", printed |-> error,
   result |-> [elements |-> elements, explanation |-> explanation]]
Propagated(e) ==
  [raised |-> e, printed |-> "none", result |-> [elements |-> <<>>, explanation |-> PyNone]]

\* mutant of Except: except ValueError in place of except Exception
ExceptValueError(t) ==
  IF t.error = "none" THEN Returned(t.elements, t.explanation, "none")
  ELSE IF t.error = "ValueError" THEN Returned(t.elements, FaultReport(t.error), t.error)
  ELSE [raised |-> t.error, printed |-> "none",
        result |-> [elements |-> t.elements, explanation |-> t.explanation]]

\* except Exception as e: ... ; return result
Except(t) ==
  IF t.error = "none" THEN Returned(t.elements, t.explanation, "none")
  ELSE Returned(t.elements, FaultReport(t.error), t.error)

calculate_geometry(cmd) ==
  IF cmd.k # "dict" THEN Propagated("AttributeError")
  ELSE Except(Handler(Get(cmd, "intent", PyStr(<<>>)),
                      Get(cmd, "data", PyDict(<<>>)),
                      Get(cmd, "explanation", PyStr(<<>>))))

\* ------------------------------------------------------------------------
\* Text: pattern in text, text.split(pattern), text.strip()
\* ------------------------------------------------------------------------
Whitespace == {" ", "\n"}
\* the backquote character
Backtick == "[backtick]"
Fence == <<Backtick, Backtick, Backtick>>
FenceJson == Fence \o <<"json">>

StartsWith(text, pattern) ==
  Len(pattern) <= Len(text) /\ SubSeq(text, 1, Len(pattern)) = pattern

Drop(text, n) == SubSeq(text, n + 1, Len(text))

\* the 1-based position of the first occurrence of pattern in text, 0 if none
RECURSIVE Find(_, _)
Find(text, pattern) ==
  IF Len(text) < Len(pattern) THEN 0
  ELSE IF StartsWith(text, pattern) THEN 1
  ELSE LET at == Find(Tail(text), pattern) IN IF at = 0 THEN 0 ELSE at + 1

Contains(text, pattern) == Find(text, pattern) # 0

RECURSIVE Split(_, _)
Split(text, pattern) ==
  LET at == Find(text, pattern) IN
  IF at = 0 THEN <<text>>
  ELSE <<SubSeq(text, 1, at - 1)>> \o Split(Drop(text, at - 1 + Len(pattern)), pattern)

RECURSIVE LStrip(_)
LStrip(text) ==
  IF text # <<>> /\ Head(text) \in Whitespace THEN LStrip(Tail(text)) ELSE text

RECURSIVE RStrip(_)
RStrip(text) ==
  IF text # <<>> /\ text[Len(text)] \in Whitespace
  THEN RStrip(SubSeq(text, 1, Len(text) - 1))
  ELSE text

Strip(text) == RStrip(LStrip(text))

\* Clean up markdown code blocks if present
CleanUp(text) ==
  IF Contains(text, FenceJson)
  THEN Strip(Split(Split(text, FenceJson)[2], Fence)[1])
  ELSE IF Contains(text, Fence)
  THEN Strip(Split(Split(text, Fence)[2], Fence)[1])
  ELSE text

\* ------------------------------------------------------------------------
\* json.loads
\* ------------------------------------------------------------------------
Parsed(v, rest) == [ok |-> TRUE, v |-> v, rest |-> rest]
Malformed == [ok |-> FALSE, e |-> "JSONDecodeError"]

RECURSIVE Join(_)
Join(tokens) == IF tokens = <<>> THEN "" ELSE Head(tokens) \o Join(Tail(tokens))

\* d[key] = val on a dict under construction: a repeated key keeps its place
RECURSIVE Store(_, _, _)
Store(d, key, val) ==
  IF d = <<>> THEN <<KV(key, val)>>
  ELSE IF Head(d).key = key THEN <<KV(key, val)>> \o Tail(d)
  ELSE <<Head(d)>> \o Store(Tail(d), key, val)

\* a string literal at the head of the text: its content up to the next quote
ParseString(text) ==
  IF text = <<>> \/ Head(text) # "\"" THEN Malformed
  ELSE LET close == Find(Tail(text), <<"\"">>) IN
       IF close = 0 THEN Malformed
       ELSE Parsed(PyStr(SubSeq(text, 2, close)), Drop(text, close + 1))

RECURSIVE ParseValue(_)
RECURSIVE ParseMembers(_, _)
RECURSIVE ParseItems(_, _)

\* the members of an object after "{" or ",": "key" : value, then "," or "}"
ParseMembers(text, d) ==
  LET key == ParseString(LStrip(text))
      colon == LStrip(key.rest)
      val == ParseValue(Tail(colon))
      next == LStrip(val.rest)
      stored == Store(d, Join(key.v.s), val.v)
  IN  IF ~ key.ok THEN Malformed
      ELSE IF colon = <<>> \/ Head(colon) # ":" THEN Malformed
      ELSE IF ~ val.ok THEN Malformed
      ELSE IF next = <<>> THEN Malformed
      ELSE IF Head(next) = "," THEN ParseMembers(Tail(next), stored)
      ELSE IF Head(next) = "}" THEN Parsed(PyDict(stored), Tail(next))
      ELSE Malformed

\* the items of an array after "[" or ",": value, then "," or "]"
ParseItems(text, l) ==
  LET val == ParseValue(text)
      next == LStrip(val.rest)
  IN  IF ~ val.ok THEN Malformed
      ELSE IF next = <<>> THEN Malformed
      ELSE IF Head(next) = "," THEN ParseItems(Tail(next), Append(l, val.v))
      ELSE IF Head(next) = "]" THEN Parsed(PyList(Append(l, val.v)), Tail(next))
      ELSE Malformed

ParseValue(text) ==
  LET t == LStrip(text)
      inner == LStrip(Tail(t))
  IN  IF t = <<>> THEN Malformed
      ELSE CASE Head(t) = "{" ->
                  IF inner # <<>> /\ Head(inner) = "}" THEN Parsed(PyDict(<<>>), Tail(inner))
                  ELSE ParseMembers(inner, <<>>)
             [] Head(t) = "[" ->
                  IF inner # <<>> /\ Head(inner) = "]" THEN Parsed(PyList(<<>>), Tail(inner))
                  ELSE ParseItems(inner, <<>>)
             [] Head(t) = "\"" -> ParseString(t)
             [] Head(t) = "null" -> Parsed(PyNone, Tail(t))
             [] Head(t) = HugeLiteral -> Parsed(PyHuge, Tail(t))
             [] Head(t) \in DOMAIN NumberLiteral ->
                  Parsed(PyNum(NumberLiteral[Head(t)]), Tail(t))
             [] OTHER -> Malformed

\* json.loads(text): one value, then nothing but whitespace
json_loads(text) ==
  LET val == ParseValue(text) IN
  IF val.ok /\ LStrip(val.rest) = <<>> THEN Ok(val.v) ELSE Malformed

\* ------------------------------------------------------------------------
\* generate_geometry
\* ------------------------------------------------------------------------
\* mock_command
MockCommand ==
  PyDict(<<KV("intent", Word("create_triangle")),
           KV("data", PyDict(<<KV("type", Word("equilateral")),
                               KV("base_length", Num(5)),
                               KV("anchor", PyList(<<Num(0), Num(0)>>))>>)),
           KV("explanation", PyStr(<<"No API key. Test equilateral triangle.">>))>>)

\* GeometryElement(**el): id and type are strings, parents are floats or strings
ValidElement(el) == \A i \in 1..Len(el.parents) : el.parents[i].k \in {"num", "str"}

\* GeometryResponse(elements=[...], explanation=...): explanation is a string
GeometryResponse(res) ==
  IF /\ \A i \in 1..Len(res.elements) : ValidElement(res.elements[i])
     /\ res.explanation.k = "str"
  THEN Ok([status |-> 200, elements |-> res.elements,
           explanation |-> res.explanation.s])
  ELSE Raise("ValidationError")

\* raise HTTPException(status_code=500, detail=...)
HTTPException(detail) == [status |-> 500, detail |-> detail]

NoCall == Propagated("none")

\* what one request does: the command handed to calculate_geometry (None if
\* none was), the outcome of that call, and the response
Handled(cmd, call, resp) == [command |-> cmd, call |-> call, response |-> resp]

\* return GeometryResponse(...), or the except clause if building it raises
Package(cmd, call, body) ==
  IF body.ok THEN Handled(cmd, call, body.v)
  ELSE Handled(cmd, call, HTTPException(<<body.e>>))

\* result = calculate_geometry(llm_command) and what follows it
Calculated(cmd, call) ==
  IF call.raised # "none" THEN Handled(cmd, call, HTTPException(<<call.raised>>))
  ELSE Package(cmd, call, GeometryResponse(call.result))

\* llm_command = json.loads(text_response) and what follows it
Loaded(llm_command) ==
  IF ~ llm_command.ok
  THEN Handled(PyNone, NoCall,
               HTTPException(<<"LLM response parsing failed: ", llm_command.e>>))
  ELSE Calculated(llm_command.v, calculate_geometry(llm_command.v))

generate_geometry(key, reply) ==
  IF ~ key THEN Calculated(MockCommand, calculate_geometry(MockCommand))
  ELSE IF ~ reply.ok THEN Handled(PyNone, NoCall, HTTPException(<<"upstream">>))
  ELSE Loaded(json_loads(CleanUp(reply.text)))

\* ------------------------------------------------------------------------
\* The requests the model draws from
\* ------------------------------------------------------------------------
\* a key left out of a dict
Missing == [k |-> "missing"]
Dict(pairs) == PyDict(SelectSeq(pairs, LAMBDA p : p.val # Missing))
Command(intent, data, explanation) ==
  Dict(<<KV("intent", intent), KV("data", data), KV("explanation", explanation)>>)

SeqUpTo(S, n) == UNION {[1..m -> S] : m \in 0..n}

Long == PyNum(1234567)
Numbers == {PyNum(0), PyNum(One), Long, PyNum(-15000000)}
Scalars == Numbers \cup {Missing, PyNone, Word("x"), Word("2"), PyHuge}
Pairs ==
  {Missing, PyList(<<PyNum(0), PyNum(0)>>), PyList(<<Long, PyNum(-15000000)>>),
   PyList(<<PyNum(One)>>), PyNone, Word("x"), PyList(<<Word("2"), PyHuge>>)}
Names == {Missing, Word("A"), Word("=>"), PyNone, PyNum(One)}
TriangleTypes ==
  {Missing, Word("equilateral"), Word("isosceles"), Word("right"), Word("general"),
   Word("scalene")}
VertexValues == {PyList(<<PyNum(0), PyNum(0)>>), PyList(<<Long, PyNum(One)>>), PyNone}
Vertices ==
  {PyList(s) : s \in SeqUpTo(VertexValues, MaxVertices)}
    \cup {Missing, PyNone, PyNum(One)}
NameValues == {Word("A"), Word("B"), Word("=>"), Word("olygon1")}
NameLists ==
  {PyList(s) : s \in SeqUpTo(NameValues, MaxNames)}
    \cup {Missing, PyNone, PyStr(<<"A", "B">>), PyNum(One)}

Said == Word("ok")

Commands ==
  {Command(Word("create_point"), Dict(<<KV("x", x), KV("y", y), KV("name", n)>>), Said) :
     x \in Scalars, y \in Scalars, n \in Names}
  \cup {Command(Word("create_triangle"),
                Dict(<<KV("type", t), KV("base_length", b), KV("anchor", a),
                       KV("height", h)>>), Said) :
          t \in TriangleTypes, b \in Scalars, a \in Pairs, h \in {Missing, Long, PyNone}}
  \cup {Command(Word("create_circle"),
                Dict(<<KV("center", c), KV("radius", r), KV("name", n)>>), Said) :
          c \in Pairs, r \in Scalars, n \in Names}
  \cup {Command(Word("create_rectangle"),
                Dict(<<KV("anchor", a), KV("width", w), KV("height", h)>>), Said) :
          a \in Pairs, w \in Scalars, h \in Scalars}
  \cup {Command(Word("create_square"), Dict(<<KV("anchor", a), KV("side", d)>>), Said) :
          a \in Pairs, d \in Scalars}
  \cup {Command(Word("create_polygon"),
                Dict(<<KV("vertices", v), KV("names", n)>>), Said) :
          v \in Vertices, n \in NameLists}
  \cup {Command(i, Dict(<<KV("point1", p), KV("point2", q)>>), Said) :
          i \in {Word("create_line"), Word("calculate_distance"),
                 Word("calculate_midpoint")},
          p \in Pairs, q \in Pairs}
  \cup {Command(i, d, e) :
          i \in Vocabulary
                 \cup {Missing, PyStr(<<>>), Word("plot_function"), PyNone, PyNum(One),
                       PyStr(<<"create_point", " ">>)},
          d \in {Missing, PyNone, PyList(<<>>), Word("x"), Dict(<<KV("x", Long)>>)},
          e \in {Missing, PyNone, Said}}

Quote == "\""
Q(s) == <<Quote>> \o s \o <<Quote>>

\* {}
JEmpty == <<"{", "}">>
\* {"intent": "create_square"}
JSquare == <<"{">> \o Q(<<"intent">>) \o <<":", " ">> \o Q(<<"create_square">>) \o <<"}">>
\* {"intent":"create_circle","data":{"center":[2,4],"radius":-1.5},"explanation":"a circle"}
JCircle ==
  <<"{">> \o Q(<<"intent">>) \o <<":">> \o Q(<<"create_circle">>) \o <<",">>
    \o Q(<<"data">>) \o <<":", "{">> \o Q(<<"center">>) \o <<":", "[", "2", ",", "4", "]", ",">>
    \o Q(<<"radius">>) \o <<":", "-1.5", "}", ",">>
    \o Q(<<"explanation">>) \o <<":">> \o Q(<<"a", " ", "circle">>) \o <<"}">>
\* {"intent":"create_polygon","data":{"vertices":[[0,0.1234567]],"names":["=>"]}}
JPolygon ==
  <<"{">> \o Q(<<"intent">>) \o <<":">> \o Q(<<"create_polygon">>) \o <<",">>
    \o Q(<<"data">>) \o <<":", "{">> \o Q(<<"vertices">>)
    \o <<":", "[", "[", "0", ",", "0.1234567", "]", "]", ",">>
    \o Q(<<"names">>) \o <<":", "[">> \o Q(<<"=>">>) \o <<"]", "}", "}">>
\* {"intent":"plot_function","explanation":"plot"}
JUnknown ==
  <<"{">> \o Q(<<"intent">>) \o <<":">> \o Q(<<"plot_function">>) \o <<",">>
    \o Q(<<"explanation">>) \o <<":">> \o Q(<<"plot">>) \o <<"}">>
\* {"intent":"create_square","explanation":null}
JNull ==
  <<"{">> \o Q(<<"intent">>) \o <<":">> \o Q(<<"create_square">>) \o <<",">>
    \o Q(<<"explanation">>) \o <<":", "null", "}">>
\* {"intent":"create_point","data":{"x":1000...0}}
JHuge ==
  <<"{">> \o Q(<<"intent">>) \o <<":">> \o Q(<<"create_point">>) \o <<",">>
    \o Q(<<"data">>) \o <<":", "{">> \o Q(<<"x">>) \o <<":", HugeLiteral, "}", "}">>
\* {"explanation":"[three backquotes]{}[three backquotes]"}
JFenced ==
  <<"{">> \o Q(<<"explanation">>) \o <<":">> \o Q(Fence \o <<"{", "}">> \o Fence) \o <<"}">>

JsonObjects == {JEmpty, JSquare, JCircle, JPolygon, JUnknown, JNull, JHuge, JFenced}

Wrappings == {"bare", "json", "plain", "prose", "js"}
Wrap(w, J) ==
  CASE w = "bare" -> J
    [] w = "json" -> FenceJson \o <<"\n">> \o J \o <<"\n">> \o Fence
    [] w = "plain" -> Fence \o <<"\n">> \o J \o <<"\n">> \o Fence
    [] w = "prose" -> <<"Here", " ">> \o FenceJson \o J \o Fence \o <<" ", "done">>
    [] w = "js" -> Fence \o <<"js", "\n">> \o J \o <<"\n">> \o Fence

Texts ==
  {Wrap(w, J) : w \in Wrappings, J \in JsonObjects}
    \cup {<<"oops">>, <<"{">>, JSquare \o <<"oops">>, <<"[", "]">>, <<"1">>,
          <<" ">> \o JSquare \o <<"\n">>}

Replies == {[ok |-> FALSE]} \cup {[ok |-> TRUE, text |-> t] : t \in Texts}

Requests ==
  {[op |-> "calculate_geometry", command |-> c] : c \in Commands}
    \cup {[op |-> "generate", reply |-> r] : r \in Replies}

\* ------------------------------------------------------------------------
\* The state machine: one request, then the call it makes
\* ------------------------------------------------------------------------
Init ==
  /\ api_key \in BOOLEAN
  /\ request \in Requests
  /\ pc = "called"
  /\ command = PyNone
  /\ result = NoCall.result
  /\ printed = "none"
  /\ raised = "none"
  /\ response = [status |-> 0]

CalculateGeometry ==
  /\ pc = "called"
  /\ request.op = "calculate_geometry"
  /\ LET call == calculate_geometry(request.command) IN
       /\ command' = request.command
       /\ result' = call.result
       /\ printed' = call.printed
       /\ raised' = call.raised
       /\ pc' = IF call.raised = "none" THEN "returned" ELSE "raised"
  /\ UNCHANGED <<api_key, request, response>>

GenerateGeometry ==
  /\ pc = "called"
  /\ request.op = "generate"
  /\ LET h == generate_geometry(api_key, request.reply) IN
       /\ command' = h.command
       /\ result' = h.call.result
       /\ printed' = h.call.printed
       /\ raised' = h.call.raised
       /\ response' = h.response
  /\ pc' = "responded"
  /\ UNCHANGED <<api_key, request>>

Next == CalculateGeometry \/ GenerateGeometry

Spec == Init /\ [][Next]_vars

\* ------------------------------------------------------------------------
\* Properties
\* ------------------------------------------------------------------------
\* calculate_geometry was handed a mapping and has returned
Called == pc \in {"returned", "responded"} /\ command.k = "dict"

Intent == Get(command, "intent", PyStr(<<>>))
Data == Get(command, "data", PyDict(<<>>))
Has(d, key) == \E i \in 1..Len(d.d) : d.d[i].key = key

Scene == result.elements
PointsOf(els) == {i \in 1..Len(els) : els[i].type = "point"}

\* C1: for an intent name outside the vocabulary (a missing or empty name
\* included), whatever the data, the returned scene has no elements and a
\* non-empty explanation string, and no error is raised or reported.
C1_UnknownIntent ==
  (Called /\ Intent \notin Vocabulary) =>
    /\ raised = "none"
    /\ printed = "none"
    /\ Scene = <<>>
    /\ result.explanation.k = "str"
    /\ result.explanation.s # <<>>

\* C1 witness: a command with no intent key and data that is not a mapping
\* has been compiled.
C1_Witness ==
  /\ Called
  /\ ~ Has(command, "intent")
  /\ Data = PyNone
  /\ Scene = <<>>

\* C2: in every returned scene each string among the parents of a non-point
\* element is the id of a point element earlier in the same list.
C2_ParentsResolve ==
  Called =>
    \A i \in 1..Len(Scene) :
      Scene[i].type # "point" =>
        \A p \in 1..Len(Scene[i].parents) :
          Scene[i].parents[p].k = "str" =>
            \E j \in 1..(i - 1) :
              Scene[j].type = "point" /\ Scene[j].id = Scene[i].parents[p].s

\* C3: in every returned scene no two elements have the same id.
C3_UniqueIds ==
  Called =>
    \A i, j \in 1..Len(Scene) : i # j => Scene[i].id # Scene[j].id

\* a list of two numbers in double range
IsPair(v) == v.k = "list" /\ Len(v.l) = 2 /\ v.l[1].k = "num" /\ v.l[2].k = "num"
IsStrings(v) == v.k = "list" /\ \A i \in 1..Len(v.l) : v.l[i].k = "str"

\* C4: create_polygon with n vertices, and names absent or with at most n
\* entries, emits exactly n points, one per vertex in input order, then one
\* polygon whose parents are exactly those n point ids in order; a point
\* with no supplied name is labelled A, B, C, ... by position, and no
\* computation error is reported.
C4_Polygon ==
  LET vertices == Get(Data, "vertices", PyList(<<>>))
      names == Get(Data, "names", PyList(<<>>))
      n == Len(vertices.l)
  IN  ( /\ Called
        /\ Intent = Word("create_polygon")
        /\ Data.k = "dict"
        /\ vertices.k = "list"
        /\ \A i \in 1..Len(vertices.l) : IsPair(vertices.l[i])
        /\ IsStrings(names)
        /\ Len(names.l) <= n ) =>
        /\ printed = "none"
        /\ Len(Scene) = n + 1
        /\ \A i \in 1..n :
             /\ Scene[i].type = "point"
             /\ Scene[i].parents = vertices.l[i].l
             /\ Scene[i].id = <<"p">> \o (IF i <= Len(names.l) THEN names.l[i].s
                                         ELSE <<Chr(64 + i)>>)
        /\ Scene[n + 1].type = "polygon"
        /\ Scene[n + 1].parents = [i \in 1..n |-> PyStr(Scene[i].id)]

\* C5: a /generate request whose language model call returns some text ends
\* in a success response with an elements list and an explanation string.
C5_AlwaysSuccess ==
  (pc = "responded" /\ api_key /\ request.reply.ok /\ request.reply.text # <<>>) =>
    /\ response.status = 200
    /\ DOMAIN response = {"status", "elements", "explanation"}

\* C6: for every command mapping calculate_geometry returns a result with an
\* elements list and an explanation and lets no exception through; when a
\* fault occurred the explanation is the report of that fault.
C6_FaultsReported ==
  (pc # "called" /\ request.op = "calculate_geometry") =>
    /\ pc = "returned"
    /\ raised = "none"
    /\ DOMAIN result = {"elements", "explanation"}
    /\ \A i \in 1..Len(Scene) :
         Scene[i].type \in {"point", "segment", "circle", "polygon", "line"}
    /\ printed # "none" => result.explanation = PyStr(<<"Calculation error: ", printed>>)

\* C6 witness: a fault in the middle of a computation: elements were already
\* appended when a TypeError ended it.
C6_Witness ==
  /\ pc = "returned"
  /\ request.op = "calculate_geometry"
  /\ printed = "TypeError"
  /\ Scene # <<>>

\* the executable-code indicators the claim names
Denylist == {"=>", "function", "Math."}
Clean(els) ==
  \A i \in 1..Len(els) :
    \A p \in 1..Len(els[i].parents) :
      els[i].parents[p].k = "str" =>
        \A t \in 1..Len(els[i].parents[p].s) : els[i].parents[p].s[t] \notin Denylist

\* C7: no element of a returned scene has among its parents a string that
\* contains a denylisted executable-code indicator.
C7_NoCodeInParents ==
  /\ Called => Clean(Scene)
  /\ (pc = "responded" /\ response.status = 200) => Clean(response.elements)

\* C8: the reply that wraps a JSON object text J in a fenced code block, with
\* the json tag or with no tag, gets the response that J itself gets.
C8_FenceStripped ==
  \A J \in JsonObjects :
    \A w \in {"json", "plain"} :
      ( /\ pc = "responded"
        /\ api_key
        /\ request.reply = [ok |-> TRUE, text |-> Wrap(w, J)] ) =>
        response = generate_geometry(TRUE, [ok |-> TRUE, text |-> J]).response

\* a create_rectangle call whose anchor, width and height are all given as
\* numbers
RectangleCall ==
  /\ Called
  /\ Intent = Word("create_rectangle")
  /\ Data.k = "dict"
  /\ Has(Data, "anchor") /\ Has(Data, "width") /\ Has(Data, "height")
  /\ Get(Data, "anchor", PyNone).k = "list"
  /\ Len(Get(Data, "anchor", PyNone).l) = 2
  /\ \A v \in {Get(Data, "anchor", PyNone).l[1], Get(Data, "anchor", PyNone).l[2],
               Get(Data, "width", PyNone), Get(Data, "height", PyNone)} :
       v.k \in {"num", "huge"}

\* the same with every number in double range
RectangleCallInRange ==
  /\ RectangleCall
  /\ \A v \in {Get(Data, "anchor", PyNone).l[1], Get(Data, "anchor", PyNone).l[2],
               Get(Data, "width", PyNone), Get(Data, "height", PyNone)} : v.k = "num"

\* five elements and no error: four points at the given coordinates, then a
\* polygon over their ids in the same order
FourPointsAndPolygon(coords) ==
  /\ printed = "none"
  /\ Len(Scene) = 5
  /\ \A i \in 1..4 :
       /\ Scene[i].type = "point"
       /\ Scene[i].parents = <<PyNum(coords[i][1]), PyNum(coords[i][2])>>
  /\ Scene[5].type = "polygon"
  /\ Scene[5].parents = [i \in 1..4 |-> PyStr(Scene[i].id)]

\* C9 as stated: for all numeric anchor (ax, ay), width w and height h the
\* result is exactly five elements and no error, the points at (ax, ay),
\* (ax+w, ay), (ax+w, ay+h), (ax, ay+h) in that order.
C9_RectangleExact ==
  RectangleCall =>
    /\ printed = "none"
    /\ Len(Scene) = 5
    /\ RectangleCallInRange =>
         LET ax == Get(Data, "anchor", PyNone).l[1].n
             ay == Get(Data, "anchor", PyNone).l[2].n
             w == Get(Data, "width", PyNone).n
             h == Get(Data, "height", PyNone).n
         IN  FourPointsAndPolygon(<<<<ax, ay>>, <<ax + w, ay>>, <<ax + w, ay + h>>,
                                    <<ax, ay + h>>>>)

\* C9 amended: for all anchor (ax, ay), width w and height h in double range,
\* zero and negative w or h included, the result is exactly five elements
\* and no error: four points at (ax, ay), (ax+w, ay), (ax+w, ay+h),
\* (ax, ay+h), each coordinate rounded to 6 fractional digits, in that order,
\* then one polygon whose parents are the four point ids in that order.
C9_RectangleRounded ==
  RectangleCallInRange =>
    LET ax == Get(Data, "anchor", PyNone).l[1].n
        ay == Get(Data, "anchor", PyNone).l[2].n
        w == Get(Data, "width", PyNone).n
        h == Get(Data, "height", PyNone).n
    IN  FourPointsAndPolygon(
          <<<<Round(ax, 6), Round(ay, 6)>>, <<Round(ax + w, 6), Round(ay, 6)>>,
            <<Round(ax + w, 6), Round(ay + h, 6)>>, <<Round(ax, 6), Round(ay + h, 6)>>>>)

\* C9 witness: a rectangle of negative height at an anchor with 7 fractional
\* digits has been compiled, and its first corner is the rounded anchor.
C9_Witness ==
  /\ RectangleCallInRange
  /\ Get(Data, "anchor", PyNone).l[1] = Long
  /\ Get(Data, "height", PyNone).n < 0
  /\ Get(Data, "width", PyNone).n = 0
  /\ Len(Scene) = 5
  /\ Scene[1].parents[1] # Long

\* a multiple of 10^-Digits
IsRounded(n) == n % (One \div (10 ^ Digits)) = 0
RoundedCoordinates ==
  \A i \in PointsOf(Scene) :
    \A p \in 1..Len(Scene[i].parents) : IsRounded(Scene[i].parents[p].n)

\* C10 as stated: every coordinate of every emitted point, whatever the
\* intent, is rounded to 6 fractional digits.
C10_AllRounded == Called => RoundedCoordinates

\* the numbers float() yields from the leaves of a value
RECURSIVE Leaves(_)
Leaves(v) ==
  CASE v.k = "list" -> UNION {Leaves(v.l[i]) : i \in 1..Len(v.l)}
    [] v.k = "dict" -> UNION {Leaves(v.d[i].val) : i \in 1..Len(v.d)}
    [] OTHER -> IF Float(v).ok THEN {Float(v).v} ELSE {}

Computing ==
  {Word("create_triangle"), Word("create_rectangle"), Word("create_square"),
   Word("calculate_midpoint")}
Literal ==
  {Word("create_point"), Word("create_circle"), Word("create_polygon"),
   Word("create_line")}

\* C10 amended: every coordinate of a point emitted by create_triangle,
\* create_rectangle, create_square or calculate_midpoint is rounded to 6
\* fractional digits; create_point, create_circle, create_polygon and
\* create_line emit float() of the coordinates they are given (or of the
\* defaults 0 and 1), without rounding.
C10_ComputedRounded ==
  /\ (Called /\ Intent \in Computing) => RoundedCoordinates
  /\ (Called /\ Intent \in Literal) =>
       \A i \in PointsOf(Scene) :
         \A p \in 1..Len(Scene[i].parents) :
           Scene[i].parents[p].n \in Leaves(Data) \cup {0, One}

\* C10 witness: a triangle at an anchor with 7 fractional digits has been
\* compiled and its first vertex carries the anchor rounded to 6.
C10_Witness ==
  /\ Called
  /\ Intent = Word("create_triangle")
  /\ Data.k = "dict"
  /\ Get(Data, "anchor", PyNone) = PyList(<<Long, PyNum(-15000000)>>)
  /\ Len(Scene) = 6
  /\ Scene[1].parents = <<PyNum(1234570), PyNum(-15000000)>>

====
